---- MODULE Spec2Model ----
(***************************************************************************)
(* AutoSage (src/app.py): the session/mode controller and the chat-history *)
(* model of a Streamlit script.  Streamlit runs the whole script once per  *)
(* user event; st.session_state (mode, messages) survives between runs.    *)
(* One action below is one script run up to the point where it blocks in,  *)
(* or returns from, model.generate_content (the remote call).  The         *)
(* framework serialises events: no widget event is handled while a run is  *)
(* blocked in the remote call.                                             *)
(***************************************************************************)
EXTENDS Naturals, Sequences, FiniteSets

VARIABLES
    secrets,        \* st.secrets["GOOGLE_API_KEY"], None when absent
    env,            \* os.getenv("GOOGLE_API_KEY"), None when absent
    api_key,        \* module-level api_key (lines 17-23)
    status,         \* outcome of the start-up configuration (line 26)
    mode,           \* st.session_state.mode
    messages,       \* st.session_state.messages, a list of (role, msg)
    uploaded_file,  \* value of the file_uploader widget (line 152), None when empty
    user_input,     \* value of the text_input widget (line 282)
    pc,             \* where the current script run is
    request,        \* argument of the last model.generate_content call
    nCalls,         \* number of generate_content calls issued so far
    appends,        \* number of messages.append calls made so far
    exception,      \* uncaught exception of the last script run
    result,         \* analysis text shown by the last run (line 164)
    view,           \* chat panel drawn by the last run (lines 276-280)
    event,          \* the handler or step that made the last transition
    prior,          \* messages as the last Send handler found them
    arg             \* the file handed to the last input_image_setup call

vars == <<secrets, env, api_key, status, mode, messages, uploaded_file,
          user_input, pc, request, nCalls, appends, exception, result,
          view, event, prior, arg>>

None == "None"
\* Python's None where a file is expected (an empty uploader, no argument)
NoFile == [type |-> None, data |-> None]
\* no generate_content call has been made yet
NoRequest == <<>>

\* ---- bounds of the model ----
MaxTurns == 4       \* longest chat history explored
MaxCalls == 3       \* most remote calls explored

Keys == {"k1"}
Texts == {"", "q1", "q2"}                    \* what the user may type
Replies == {"r1", "r2"}                      \* what the remote model may answer
MimeTypes == {"image/png", "image/jpeg"}     \* file_uploader type=[jpg,jpeg,png]
Blobs == {"b1", "b2"}
Files == [type : MimeTypes, data : Blobs]    \* UploadedFile: .type, .getvalue()

\* ---- lines 17-26: API key ----
ResolveApiKey(s, e) == IF s # None THEN s ELSE e

\* genai.configure(api_key=api_key): the script passes whatever it resolved,
\* None included, and checks nothing; the script goes on to serve the page.
Configure(k) == "serving"

\* ---- lines 40-89, 200-268: prompts ----
image_prompt == "image_prompt"
build_prompt(user_query) == <<"chat_prompt_head", user_query, "chat_prompt_tail">>

\* mutant: the `is not None` test of line 97 dropped
input_image_setup_noCheck(f) ==
    [raised |-> None, value |-> [mime_type |-> f.type, data |-> f.data]]

\* ---- lines 96-104 ----
input_image_setup(f) ==
    IF f # NoFile
    THEN [raised |-> None, value |-> [mime_type |-> f.type, data |-> f.data]]
    ELSE [raised |-> "FileNotFoundError", value |-> None]

\* mutant: the image left out of the request
get_image_response_noImage(image_data) == <<image_prompt>>

\* ---- lines 111-114: the argument get_image_response hands to generate_content ----
get_image_response(image_data) == <<image_prompt, image_data>>

\* ---- lines 270-273: the argument get_text_response hands to generate_content ----
get_text_response(prompt) == prompt

\* mutant: insert(0, ...) instead of append
appendTurn_front(msgs, role, text) == <<<<role, text>>>> \o msgs

\* mutant: the last entry overwritten instead of a new one appended
appendTurn_overwrite(msgs, role, text) ==
    IF msgs = <<>> THEN <<<<role, text>>>>
    ELSE [msgs EXCEPT ![Len(msgs)] = <<role, text>>]

\* ---- lines 286, 291: list.append on session_state.messages ----
appendTurn(msgs, role, text) == Append(msgs, <<role, text>>)

\* mutant: the role test of line 277 dropped
render_noRole(msgs) == [i \in 1..Len(msgs) |-> <<"You", msgs[i][2]>>]

\* ---- lines 276-280: display chat history ----
render(msgs) ==
    [i \in 1..Len(msgs) |->
        IF msgs[i][1] = "user" THEN <<"You", msgs[i][2]>>
                               ELSE <<"AutoSage", msgs[i][2]>>]

\* what a script run draws in the chat panel: nothing in image mode
Panel(m, msgs) == IF m = "chat" THEN render(msgs) ELSE <<>>

\* ---- lines 17-26, 124-128: the state after the first script run ----
Init ==
    /\ secrets \in Keys \cup {None}
    /\ env \in Keys \cup {None}
    /\ api_key = ResolveApiKey(secrets, env)
    /\ status = Configure(api_key)
    /\ mode = "image"
    /\ messages = <<>>
    /\ uploaded_file = NoFile
    /\ user_input = ""
    /\ pc = "idle"
    /\ request = NoRequest
    /\ nCalls = 0
    /\ appends = 0
    /\ exception = None
    /\ result = None
    /\ view = <<>>
    /\ event = "start"
    /\ prior = <<>>
    /\ arg = NoFile

\* a new script run can start: the app is up and no run is blocked in a call
Ready == status = "serving" /\ pc = "idle"

Config == <<secrets, env, api_key, status>>

\* mutant: the header button toggles the mode
OpenAssistant_toggle ==
    /\ Ready
    /\ mode' = (IF mode = "chat" THEN "image" ELSE "chat")
    /\ uploaded_file' = NoFile
    /\ view' = Panel(mode', messages)
    /\ exception' = None /\ result' = None
    /\ event' = "open_assistant"
    /\ UNCHANGED <<Config, messages, user_input, pc, request, nCalls, appends, prior, arg>>

\* ---- lines 138-141: the header button, drawn in every mode ----
OpenAssistant ==
    /\ Ready
    /\ mode' = "chat"
    /\ uploaded_file' = NoFile          \* the uploader is not drawn in chat mode
    /\ view' = Panel("chat", messages)      \* st.rerun(): the chat panel is drawn
    /\ exception' = None /\ result' = None
    /\ event' = "open_assistant"
    /\ UNCHANGED <<Config, messages, user_input, pc, request, nCalls, appends, prior, arg>>

\* mutant: going back starts a fresh conversation
Back_clearing ==
    /\ Ready
    /\ mode = "chat"
    /\ mode' = "image"
    /\ messages' = <<>>
    /\ user_input' = ""
    /\ view' = Panel("image", messages')
    /\ exception' = None /\ result' = None
    /\ event' = "back"
    /\ UNCHANGED <<Config, uploaded_file, pc, request, nCalls, appends, prior, arg>>

\* ---- lines 175-177: the back button, drawn in chat mode ----
Back ==
    /\ Ready
    /\ mode = "chat"
    /\ mode' = "image"
    /\ user_input' = ""               \* the text input is not drawn in image mode
    /\ view' = Panel("image", messages)
    /\ exception' = None /\ result' = None
    /\ event' = "back"
    /\ UNCHANGED <<Config, messages, uploaded_file, pc, request, nCalls, appends, prior, arg>>

\* ---- line 152: the user picks a file, or removes it, in image mode ----
Upload ==
    /\ Ready
    /\ mode = "image"
    /\ \E f \in Files \cup {NoFile} : uploaded_file' = f
    /\ view' = Panel(mode, messages)
    /\ exception' = None /\ result' = None
    /\ event' = "upload"
    /\ UNCHANGED <<Config, mode, messages, user_input, pc, request, nCalls,
                   appends, prior, arg>>

\* ---- lines 159-161: the body of the Analyze handler applied to file f ----
analyzeImage(f) ==
    LET image_data == input_image_setup(f) IN
    /\ arg' = f
    /\ IF image_data.raised # None
       THEN /\ exception' = image_data.raised     \* uncaught: the run ends here
            /\ pc' = "idle"
            /\ UNCHANGED <<request, nCalls>>
       ELSE /\ exception' = None
            /\ request' = get_image_response(image_data.value)
            /\ nCalls' = nCalls + 1
            /\ pc' = "image_call"                 \* blocked in generate_content
    /\ result' = None
    /\ event' = "analyze"
    /\ UNCHANGED <<Config, mode, messages, uploaded_file, user_input, appends,
                   view, prior>>

\* ---- lines 154-161: the Analyze button exists only below `if uploaded_file` ----
Analyze ==
    /\ Ready
    /\ mode = "image"
    /\ uploaded_file # NoFile
    /\ nCalls < MaxCalls
    /\ analyzeImage(uploaded_file)

\* ---- lines 113-114, 163-164: generate_content returns, the text is shown ----
ImageReturn ==
    /\ pc = "image_call"
    /\ api_key # None                 \* without a key the service answers nothing
    /\ \E r \in Replies : result' = r
    /\ pc' = "idle"
    /\ event' = "image_return"
    /\ UNCHANGED <<Config, mode, messages, uploaded_file, user_input, request,
                   nCalls, appends, exception, view, prior, arg>>

\* ---- line 113: generate_content raises; nothing in the script catches it ----
ImageFail ==
    /\ pc = "image_call"
    /\ exception' = "RemoteCallError"
    /\ pc' = "idle"
    /\ event' = "image_fail"
    /\ UNCHANGED <<Config, mode, messages, uploaded_file, user_input, request,
                   nCalls, appends, result, view, prior, arg>>

\* ---- line 282: the user edits the text input in chat mode ----
TypeText ==
    /\ Ready
    /\ mode = "chat"
    /\ \E q \in Texts : user_input' = q
    /\ view' = Panel(mode, messages)
    /\ exception' = None /\ result' = None
    /\ event' = "type"
    /\ UNCHANGED <<Config, mode, messages, uploaded_file, pc, request, nCalls,
                   appends, prior, arg>>

\* mutant: the `if user_input` test dropped
TruthyAlways(s) == TRUE

\* ---- line 285: `if user_input` on a str ----
Truthy(s) == s # ""

\* ---- lines 276-289: the Send button; the history is drawn before it is handled ----
Send ==
    /\ Ready
    /\ mode = "chat"
    /\ ~Truthy(user_input) \/ (Len(messages) + 2 <= MaxTurns /\ nCalls < MaxCalls)
    /\ view' = Panel(mode, messages)
    /\ prior' = messages
    /\ IF Truthy(user_input)
       THEN /\ messages' = appendTurn(messages, "user", user_input)
            /\ appends' = appends + 1
            /\ request' = get_text_response(build_prompt(user_input))
            /\ nCalls' = nCalls + 1
            /\ pc' = "chat_call"                  \* blocked in generate_content
       ELSE UNCHANGED <<messages, appends, request, nCalls, pc>>
    /\ exception' = None /\ result' = None
    /\ event' = "send"
    /\ UNCHANGED <<Config, mode, uploaded_file, user_input, arg>>

\* ---- lines 273, 291-292: generate_content returns; append, st.rerun() ----
ChatReturn ==
    /\ pc = "chat_call"
    /\ api_key # None
    /\ \E r \in Replies : messages' = appendTurn(messages, "bot", r)
    /\ appends' = appends + 1
    /\ view' = Panel(mode, messages')
    /\ pc' = "idle"
    /\ event' = "chat_return"
    /\ UNCHANGED <<Config, mode, uploaded_file, user_input, request, nCalls,
                   exception, result, prior, arg>>

\* mutant: the error caught and stored as the assistant's answer
ChatFail_phantom ==
    /\ pc = "chat_call"
    /\ messages' = appendTurn(messages, "bot", "RemoteCallError")
    /\ appends' = appends + 1
    /\ view' = Panel(mode, messages')
    /\ pc' = "idle"
    /\ event' = "chat_fail"
    /\ UNCHANGED <<Config, mode, uploaded_file, user_input, request, nCalls,
                   exception, result, prior, arg>>

\* ---- line 272: generate_content raises; lines 291-292 are never reached ----
ChatFail ==
    /\ pc = "chat_call"
    /\ exception' = "RemoteCallError"
    /\ pc' = "idle"
    /\ event' = "chat_fail"
    /\ UNCHANGED <<Config, mode, messages, uploaded_file, user_input, request,
                   nCalls, appends, result, view, prior, arg>>

Next ==
    \/ OpenAssistant
    \/ Back
    \/ Upload
    \/ Analyze
    \/ ImageReturn
    \/ ImageFail
    \/ TypeText
    \/ Send
    \/ ChatReturn
    \/ ChatFail

Spec == Init /\ [][Next]_vars

\* ---- lines 96-104, 160-161 called directly, with any file or none ----
CallAnalyzeImage ==
    /\ Ready
    /\ nCalls < MaxCalls
    /\ \E f \in Files \cup {NoFile} : analyzeImage(f)

NextHarness == Next \/ CallAnalyzeImage

SpecHarness == Init /\ [][NextHarness]_vars

\* ======================= properties =======================

IsPrefix(s, t) == Len(s) <= Len(t) /\ SubSeq(t, 1, Len(s)) = s

\* C1: when the remote call of a chat submission fails, the history is the
\* prior history plus exactly the new user turn (no turn is appended for the
\* failed call) and the error is the run's uncaught exception, not swallowed.
C1_FailedCallKeepsOnlyUserTurn ==
    event = "chat_fail" =>
        /\ messages = Append(prior, <<"user", user_input>>)
        /\ exception = "RemoteCallError"
        /\ pc = "idle"

C1_Witness == event = "chat_fail" /\ Len(prior) > 0

C3_ModeSwitchKeepsHistory ==
    [][ /\ (event' = "open_assistant" /\ mode = "image") =>
               (mode' = "chat" /\ messages' = messages)
        /\ (event' = "back" /\ mode = "chat") =>
               (mode' = "image" /\ messages' = messages) ]_vars

C3_Witness == event = "open_assistant" /\ mode = "chat" /\ Len(messages) >= 3

\* C4: the history is append-only and order-preserving: each state's history
\* extends the previous one, and after N appends its length is N.
C4_AppendOnly ==
    /\ [][IsPrefix(messages, messages')]_vars
    /\ [](Len(messages) = appends)

C4_Witness == appends >= 3 /\ Len(messages) >= 3

\* C5: analyze in image mode with an uploaded file issues exactly one model
\* call, carrying the fixed image prompt and the upload's mime type and bytes;
\* history and mode are untouched by the analysis, success or failure.
C5_AnalyzeCallsOnceKeepsSession ==
    [][ /\ event' = "analyze" =>
               /\ uploaded_file # NoFile /\ mode = "image"
               /\ nCalls' = nCalls + 1
               /\ request' = <<image_prompt, [mime_type |-> uploaded_file.type,
                                              data |-> uploaded_file.data]>>
               /\ pc' = "image_call"
               /\ messages' = messages /\ mode' = mode
        /\ pc = "image_call" =>
               /\ event' \in {"image_return", "image_fail"}
               /\ nCalls' = nCalls /\ request' = request
               /\ messages' = messages /\ mode' = mode ]_vars

C5_Witness == event = "image_fail" /\ Len(messages) > 0 /\ nCalls >= 2

\* C6: image analysis applied to an absent file raises FileNotFoundError
\* (the NoFileError), issues no remote call and leaves history and mode as
\* they were.
C6_NoFileNoCall ==
    [][ (event' = "analyze" /\ arg' = NoFile) =>
            /\ exception' = "FileNotFoundError"
            /\ pc' = "idle"
            /\ nCalls' = nCalls /\ request' = request
            /\ messages' = messages /\ mode' = mode ]_vars

C6_Witness ==
    /\ event = "analyze" /\ arg = NoFile /\ exception = "FileNotFoundError"
    /\ Len(messages) > 0

\* C7: with the key absent from both the secrets store and the environment
\* the app is never serving and no remote call is ever issued.
C7_FailFast == api_key = None => (status # "serving" /\ nCalls = 0)

C9_ModeMachine ==
    /\ mode = "image"
    /\ [](mode \in {"image", "chat"})
    /\ [][ /\ mode' # mode =>
                  \/ (mode = "image" /\ mode' = "chat" /\ event' = "open_assistant")
                  \/ (mode = "chat" /\ mode' = "image" /\ event' = "back")
           /\ event' = "open_assistant" => mode' = "chat"
           /\ event' = "back" => mode' = "image" ]_vars
    /\ [](Ready => ENABLED OpenAssistant)
    /\ [](Ready /\ mode = "chat" => ENABLED Back)

C9_Witness == event = "back" /\ mode = "image" /\ nCalls > 0 /\ Len(messages) > 0

\* C10: Send with an empty text input appends nothing, issues no remote call
\* and leaves the mode alone.
C10_EmptySendIsNoOp ==
    [][ (event' = "send" /\ user_input = "") =>
            /\ messages' = messages
            /\ nCalls' = nCalls /\ request' = request
            /\ pc' = "idle"
            /\ mode' = mode ]_vars

C10_Witness ==
    /\ event = "send" /\ user_input = "" /\ pc = "idle"
    /\ mode = "chat" /\ Len(messages) > 0
====
